---- MODULE Spec2Model ----
(***************************************************************************)
(* 2D convex hull by Graham Scan: the geometric primitives of              *)
(* src/utils/geometry.py, the engine ConvexHull2D and the dispatcher       *)
(* compute_convex_hull of src/convex_hull/convex_hull_2d.py.               *)
(*                                                                         *)
(* Points have integer coordinates (Python ints: exact, unbounded).  The   *)
(* two floating-point quantities of the code are represented exactly:      *)
(*   - polar_angle = atan2(dy, dx) by the direction vector (dx, dy); the   *)
(*     order of two angles and the test |a - b| < 1e-9 are decided on the  *)
(*     vectors (cross and dot product);                                    *)
(*   - distance_to = sqrt(dx*dx + dy*dy) by its radicand, kept as a pair   *)
(*     of digits in base 10^6, as is every product that may leave 32 bits. *)
(* The two metrics are real numbers: an area is counted in halves, a       *)
(* perimeter is a sum of square roots, kept as the sum of the roots that   *)
(* are integers and the bag of the radicands that are no squares.          *)
(***************************************************************************)
EXTENDS Integers, Sequences, FiniteSets, Bags, TLC

\* ------------------------------------------------------------ bounds
MaxX == 2
MaxY == 2
MaxLen == 4
FarX == 31623
WideLen == 3

\* ------------------------------------------------- program constants
\* len(points) < 3 raises
MinPoints == 3
\* the tolerance 1e-9 of the same-angle test, as its reciprocal
TolInv == 1000000000

\* ------------------------------------------------------------ inputs
Point2D(x, y) == [x |-> x, y |-> y]

Grid == {Point2D(x, y) : x \in 0..MaxX, y \in 0..MaxY}

\* Three far points whose directions from a pivot near the origin differ by
\* about 1e-9 radians, and the grid around the origin.
WidePoints == {Point2D(FarX, 1), Point2D(FarX + 1, 1), Point2D(2 * FarX + 5, 2)}

SeqsUpTo(S, lo, hi) == UNION {[1..n -> S] : n \in lo..hi}

PointLists == SeqsUpTo(Grid, 0, MaxLen) \cup SeqsUpTo(Grid \cup WidePoints, MinPoints, WideLen)

Algorithms == {"graham", "quick", "jarvis"}

\* ------------------------------------------------ geometry.py
\* fault: the sign convention inverted (a negative val read as clockwise)
orientationCwForNegative(p, q, r) ==
  LET val == (q.y - p.y) * (r.x - q.x) - (q.x - p.x) * (r.y - q.y)
  IN  IF val = 0 THEN 0 ELSE IF val < 0 THEN 1 ELSE 2

orientation(p, q, r) ==
  LET val == (q.y - p.y) * (r.x - q.x) - (q.x - p.x) * (r.y - q.y)
  IN  IF val = 0 THEN 0 ELSE IF val > 0 THEN 1 ELSE 2

\* fault: a collinear triple counts as a counter-clockwise turn
ccwOrCollinear(p1, p2, p3) == orientation(p1, p2, p3) # 1

ccw(p1, p2, p3) == orientation(p1, p2, p3) = 2

polar_angle(origin, point) == [dx |-> point.x - origin.x, dy |-> point.y - origin.y]

Abs(n) == IF n < 0 THEN -n ELSE n

\* Python integers are unbounded.  A product that may leave 32 bits is kept as
\* two digits <<high, low>> in base 10^6, of value high * 10^6 + low with
\* 0 <= low < 10^6.
\* m * n for 0 <= m, n < 10^5
MulDigits(m, n) ==
  LET c == (m \div 1000) * n
      low == (c % 1000) * 1000 + (m % 1000) * n
  IN  <<c \div 1000 + low \div 1000000, low % 1000000>>

NegDigits(d) == IF d[2] = 0 THEN <<-d[1], 0>> ELSE <<-d[1] - 1, 1000000 - d[2]>>

AddDigits(d, e) == <<d[1] + e[1] + (d[2] + e[2]) \div 1000000, (d[2] + e[2]) % 1000000>>

\* m * n for |m|, |n| < 10^5
ProdDigits(m, n) ==
  IF (m < 0) # (n < 0) THEN NegDigits(MulDigits(Abs(m), Abs(n)))
  ELSE MulDigits(Abs(m), Abs(n))

Cross(a, b) == a.dx * b.dy - a.dy * b.dx
Dot(a, b) == AddDigits(ProdDigits(a.dx, b.dx), ProdDigits(a.dy, b.dy))

\* d > c * 10^9, for c >= 0
ExceedsTol(d, c) ==
  LET h == c * (TolInv \div 1000000)
  IN  d[1] > h \/ (d[1] = h /\ d[2] > 0)

\* Where atan2 puts a direction in (-pi, pi]: 0 for (-pi, 0), 1 for the angle 0
\* (atan2(0, 0) is 0 as well), 2 for (0, pi), 3 for pi.
Branch(a) ==
  IF a.dy < 0 THEN 0
  ELSE IF a.dy > 0 THEN 2
  ELSE IF a.dx >= 0 THEN 1 ELSE 3

\* atan2 of a < atan2 of b
AngleLess(a, b) ==
  \/ Branch(a) < Branch(b)
  \/ Branch(a) = Branch(b) /\ Cross(a, b) > 0

AngleEq(a, b) == ~AngleLess(a, b) /\ ~AngleLess(b, a)

\* abs(atan2 of a - atan2 of b) < 1e-9.  For two different angles on the same
\* side of the cut at pi the difference is the angle between the vectors,
\* whose tangent is |cross| / dot; tan(1e-9) is 1e-9 to 18 digits.  So the
\* test is |cross| * 10^9 < dot.
AngleClose(a, b) ==
  \/ AngleEq(a, b)
  \/ /\ ~(a.dx < 0 /\ b.dx < 0 /\ (a.dy < 0) # (b.dy < 0))
     /\ ExceedsTol(Dot(a, b), Abs(Cross(a, b)))

SqDigits(n) == MulDigits(Abs(n), Abs(n))

\* sqrt(dx*dx + dy*dy), represented by its radicand
distance_to(self, other) ==
  AddDigits(SqDigits(self.x - other.x), SqDigits(self.y - other.y))

DistLess(d, e) == d[1] < e[1] \/ (d[1] = e[1] /\ d[2] < e[2])

\* ------------------------------------------------ convex_hull_2d.py
\* fault: len(points) <= 3
TooFewOffByOne(points) == Len(points) <= MinPoints

\* len(points) < 3 of ConvexHull2D.__init__
TooFew(points) == Len(points) < MinPoints

\* fault: the key (p.x, p.y)
KeyXThenY(p, q) == p.x < q.x \/ (p.x = q.x /\ p.y < q.y)

\* fault: the key p.y, without the tie-break on x
KeyYOnly(p, q) == p.y < q.y

\* the key (p.y, p.x) of the pivot selection, as a strict order
StartKeyLess(p, q) == p.y < q.y \/ (p.y = q.y /\ p.x < q.x)

\* min(points, key = ...): the first element that no other element is below
RECURSIVE MinFrom(_, _, _)
MinFrom(points, k, best) ==
  IF k > Len(points) THEN best
  ELSE MinFrom(points, k + 1, IF StartKeyLess(points[k], best) THEN points[k] ELSE best)

\* fault: the pivot taken as (min x, min y), each minimum on its own
LeastOf(S) == CHOOSE v \in S : \A w \in S : v <= w

BoxCorner(points) ==
  Point2D(LeastOf({points[k].x : k \in 1..Len(points)}),
          LeastOf({points[k].y : k \in 1..Len(points)}))

\* start = min(self.points, key = lambda p: (p.y, p.x))
min_start(points) == MinFrom(points, 2, points[1])

other_points(points, s) == SelectSeq(points, LAMBDA p : p # s)

\* the sort key (polar_angle(start, p), start.distance_to(p)), as a strict order
SortKeyLess(s, p, q) ==
  LET a == polar_angle(s, p)
      b == polar_angle(s, q)
  IN  \/ AngleLess(a, b)
      \/ AngleEq(a, b) /\ DistLess(distance_to(s, p), distance_to(s, q))

\* sorted(...) is stable: an element goes behind every element whose key is
\* not greater than its own
RECURSIVE InsertSorted(_, _, _)
InsertSorted(s, list, p) ==
  IF list = <<>> THEN <<p>>
  ELSE IF SortKeyLess(s, p, Head(list)) THEN <<p>> \o list
  ELSE <<Head(list)>> \o InsertSorted(s, Tail(list), p)

RECURSIVE sorted_points(_, _)
sorted_points(s, list) ==
  IF list = <<>> THEN <<>>
  ELSE InsertSorted(s, sorted_points(s, SubSeq(list, 1, Len(list) - 1)), list[Len(list)])

\* fault: < for >, which keeps the nearest point of a direction
KeepNearer(origin, last, p) == DistLess(distance_to(origin, p), distance_to(origin, last))

\* origin.distance_to(points[i]) > origin.distance_to(filtered[-1])
KeepFarther(origin, last, p) == DistLess(distance_to(origin, last), distance_to(origin, p))

RECURSIVE RemoveLoop(_, _, _, _)
RemoveLoop(origin, points, k, filtered) ==
  IF k > Len(points) THEN filtered
  ELSE LET n == Len(filtered)
           angle_prev == polar_angle(origin, filtered[n])
           angle_curr == polar_angle(origin, points[k])
       IN  IF AngleClose(angle_prev, angle_curr)
           THEN IF KeepFarther(origin, filtered[n], points[k])
                THEN RemoveLoop(origin, points, k + 1, [filtered EXCEPT ![n] = points[k]])
                ELSE RemoveLoop(origin, points, k + 1, filtered)
           ELSE RemoveLoop(origin, points, k + 1, Append(filtered, points[k]))

remove_same_angle_points(origin, points) ==
  IF points = <<>> THEN <<>> ELSE RemoveLoop(origin, points, 2, <<points[1]>>)

\* steps 2 and 3 of graham_scan
FilteredPoints(points) ==
  LET s == min_start(points)
  IN  remove_same_angle_points(s, sorted_points(s, other_points(points, s)))

Pop(h) == SubSeq(h, 1, Len(h) - 1)

\* the guard of the while loop, for the candidate c
MustPop(h, c) == Len(h) > 1 /\ ~ccw(h[Len(h) - 1], h[Len(h)], c)

RECURSIVE PopWhile(_, _)
PopWhile(h, c) == IF MustPop(h, c) THEN PopWhile(Pop(h), c) ELSE h

\* the for loop from the 0-based index k on
RECURSIVE ScanLoop(_, _, _)
ScanLoop(h, filtered, k) ==
  IF k >= Len(filtered) THEN h
  ELSE ScanLoop(Append(PopWhile(h, filtered[k + 1]), filtered[k + 1]), filtered, k + 1)

\* the value graham_scan returns for self.points = points
graham_scan(points) ==
  LET s == min_start(points)
      f == FilteredPoints(points)
  IN  IF Len(f) < 2 THEN <<s>> \o f
      ELSE ScanLoop(<<s, f[1], f[2]>>, f, 2)

\* The largest k in lo..hi with k * k <= r, for a radicand r in digits
RECURSIVE RootBetween(_, _, _)
RootBetween(lo, hi, r) ==
  IF lo >= hi THEN lo
  ELSE LET mid == (lo + hi + 1) \div 2
       IN  IF DistLess(r, SqDigits(mid)) THEN RootBetween(lo, mid - 1, r)
           ELSE RootBetween(mid, hi, r)

\* math.sqrt where the root is an integer: the floor of the root of r
\* (coordinates are below 10^5, so that roots are below 200000)
IntegerRoot(r) == RootBetween(0, 200000, r)

ZeroLength == [int |-> 0, roots |-> EmptyBag]

\* perimeter += d, for a distance d given by its radicand
AddLength(perimeter, d) ==
  LET k == IntegerRoot(d)
  IN  IF SqDigits(k) = d THEN [perimeter EXCEPT !.int = @ + k]
      ELSE [perimeter EXCEPT !.roots = @ (+) SetToBag({d})]

\* if len(self.hull) < 2 of get_hull_perimeter
PerimeterIsZero(h) == Len(h) < 2

\* the loop of get_hull_perimeter from the 0-based index k on
RECURSIVE PerimeterLoop(_, _, _)
PerimeterLoop(h, k, perimeter) ==
  IF k >= Len(h) THEN perimeter
  ELSE LET j == (k + 1) % Len(h)
       IN  PerimeterLoop(h, k + 1, AddLength(perimeter, distance_to(h[k + 1], h[j + 1])))

\* the value get_hull_perimeter returns for self.hull = h
hull_perimeter(h) ==
  IF PerimeterIsZero(h) THEN ZeroLength ELSE PerimeterLoop(h, 0, ZeroLength)

\* the loop of get_hull_area from the 0-based index k on
RECURSIVE AreaLoop(_, _, _)
AreaLoop(h, k, area) ==
  IF k >= Len(h) THEN area
  ELSE LET j == (k + 1) % Len(h)
       IN  AreaLoop(h, k + 1, area + h[k + 1].x * h[j + 1].y - h[j + 1].x * h[k + 1].y)

\* the value get_hull_area returns for self.hull = h: abs(area) / 2.0, in halves
hull_area(h) ==
  IF Len(h) < 3 THEN [halves |-> 0] ELSE [halves |-> Abs(AreaLoop(h, 0, 0))]

\* ------------------------------------------------------------ state
VARIABLES
  arg,              \* the list a constructor or dispatcher call was given
  algorithm,        \* the algorithm argument of compute_convex_hull, "" otherwise
  engine,           \* "none", or "live" while a ConvexHull2D object exists
  self_points,      \* self.points
  self_hull,        \* self.hull
  pc,               \* "idle", or "scan" inside the for loop of graham_scan
  call,             \* the outermost call that waits for graham_scan
  start,            \* locals of graham_scan: start, filtered_points, hull, i
  filtered_points,
  hull,
  i,
  last,             \* what the latest graham_scan of the engine returned
  result            \* the outcome of the latest completed call

vars == <<arg, algorithm, engine, self_points, self_hull, pc, call,
          start, filtered_points, hull, i, last, result>>

NoPoint == Point2D(0, 0)
NoLast == [has |-> FALSE, val |-> <<>>]
Outcome(op, kind, val) == [op |-> op, kind |-> kind, val |-> val]

ScanOps == {"graham_scan", "compute_convex_hull"}

Init ==
  /\ arg = <<>>
  /\ algorithm = ""
  /\ engine = "none"
  /\ self_points = <<>>
  /\ self_hull = <<>>
  /\ pc = "idle"
  /\ call = ""
  /\ start = NoPoint
  /\ filtered_points = <<>>
  /\ hull = <<>>
  /\ i = 0
  /\ last = NoLast
  /\ result = Outcome("", "none", <<>>)

\* One engine per behaviour: a constructor or dispatcher call is the first call.
Fresh == engine = "none" /\ result.kind = "none"

LocalsCleared ==
  /\ start' = NoPoint
  /\ filtered_points' = <<>>
  /\ hull' = <<>>
  /\ i' = 0

\* ConvexHull2D(points)
Construct(points) ==
  /\ arg' = points
  /\ IF TooFew(points)
     THEN /\ result' = Outcome("ConvexHull2D", "ValueError", <<>>)
          /\ UNCHANGED <<engine, self_points, self_hull>>
     ELSE /\ engine' = "live"
          /\ self_points' = points
          /\ self_hull' = <<>>
          /\ result' = Outcome("ConvexHull2D", "object", <<>>)
  /\ UNCHANGED <<algorithm, pc, call, start, filtered_points, hull, i, last>>

\* graham_scan up to the first test of the for loop, entered for the call op
\* on an engine whose points are points: either the early return of the
\* degenerate case, which leaves self.hull alone, or the loop with i = 2
EnterScan(op, points) ==
  LET s == min_start(points)
      f == remove_same_angle_points(s, sorted_points(s, other_points(points, s)))
  IN  IF Len(f) < 2
      THEN /\ result' = Outcome(op, "list", <<s>> \o f)
           /\ last' = [has |-> TRUE, val |-> <<s>> \o f]
           /\ engine' = IF op = "compute_convex_hull" THEN "none" ELSE "live"
           /\ pc' = "idle"
           /\ call' = ""
           /\ LocalsCleared
      ELSE /\ start' = s
           /\ filtered_points' = f
           /\ hull' = <<s, f[1], f[2]>>
           /\ i' = 2
           /\ pc' = "scan"
           /\ call' = op
           /\ engine' = "live"
           /\ UNCHANGED <<last, result>>

\* ch.graham_scan(), or ch.compute_hull(), which is graham_scan inside the
\* timing wrapper and returns what it returns
GrahamScan ==
  /\ engine = "live"
  /\ pc = "idle"
  /\ EnterScan("graham_scan", self_points)
  /\ UNCHANGED <<arg, algorithm, self_points, self_hull>>

\* while len(hull) > 1 and not ccw(hull[-2], hull[-1], filtered_points[i]): hull.pop()
ScanPop ==
  /\ pc = "scan"
  /\ i < Len(filtered_points)
  /\ MustPop(hull, filtered_points[i + 1])
  /\ hull' = Pop(hull)
  /\ UNCHANGED <<arg, algorithm, engine, self_points, self_hull, pc, call,
                 start, filtered_points, i, last, result>>

\* hull.append(filtered_points[i]) and the next i
ScanPush ==
  /\ pc = "scan"
  /\ i < Len(filtered_points)
  /\ ~MustPop(hull, filtered_points[i + 1])
  /\ hull' = Append(hull, filtered_points[i + 1])
  /\ i' = i + 1
  /\ UNCHANGED <<arg, algorithm, engine, self_points, self_hull, pc, call,
                 start, filtered_points, last, result>>

\* self.hull = hull; return hull.  The engine of compute_convex_hull is a
\* local of the dispatcher and is gone when it returns.
ScanReturn ==
  /\ pc = "scan"
  /\ i >= Len(filtered_points)
  /\ self_hull' = hull
  /\ result' = Outcome(call, "list", hull)
  /\ last' = [has |-> TRUE, val |-> hull]
  /\ engine' = IF call = "compute_convex_hull" THEN "none" ELSE "live"
  /\ pc' = "idle"
  /\ call' = ""
  /\ LocalsCleared
  /\ UNCHANGED <<arg, algorithm, self_points>>

\* ch.get_hull_vertices()
GetHullVertices ==
  /\ engine = "live"
  /\ pc = "idle"
  /\ result' = Outcome("get_hull_vertices", "list", self_hull)
  /\ UNCHANGED <<arg, algorithm, engine, self_points, self_hull, pc, call,
                 start, filtered_points, hull, i, last>>

\* ch.get_hull_area()
GetHullArea ==
  /\ engine = "live"
  /\ pc = "idle"
  /\ result' = Outcome("get_hull_area", "float", hull_area(self_hull))
  /\ UNCHANGED <<arg, algorithm, engine, self_points, self_hull, pc, call,
                 start, filtered_points, hull, i, last>>

\* ch.get_hull_perimeter()
GetHullPerimeter ==
  /\ engine = "live"
  /\ pc = "idle"
  /\ result' = Outcome("get_hull_perimeter", "float", hull_perimeter(self_hull))
  /\ UNCHANGED <<arg, algorithm, engine, self_points, self_hull, pc, call,
                 start, filtered_points, hull, i, last>>

\* quick_hull(points): the body is pass
quick_hull(points) == Outcome("compute_convex_hull", "None", <<>>)

\* compute_convex_hull(points, alg)
ComputeConvexHull(points, alg) ==
  /\ arg' = points
  /\ algorithm' = alg
  /\ IF alg = "graham"
     THEN IF TooFew(points)
          THEN /\ result' = Outcome("compute_convex_hull", "ValueError", <<>>)
               /\ UNCHANGED <<engine, self_points, self_hull, pc, call,
                              start, filtered_points, hull, i, last>>
          ELSE /\ self_points' = points
               /\ self_hull' = <<>>
               /\ EnterScan("compute_convex_hull", points)
     ELSE /\ result' = IF alg = "quick" THEN quick_hull(points)
                       ELSE Outcome("compute_convex_hull", "ValueError", <<>>)
          /\ UNCHANGED <<engine, self_points, self_hull, pc, call,
                         start, filtered_points, hull, i, last>>

Next ==
  \/ Fresh /\ \E points \in PointLists : Construct(points)
  \/ Fresh /\ \E points \in PointLists, alg \in Algorithms : ComputeConvexHull(points, alg)
  \/ GrahamScan
  \/ ScanPop
  \/ ScanPush
  \/ ScanReturn
  \/ GetHullVertices
  \/ GetHullArea
  \/ GetHullPerimeter

Spec == Init /\ [][Next]_vars

\* ------------------------------------------------------------ claims
\* Geometry of the statements, independent of the program's primitives.
\* Twice the signed area of the triangle a, b, c: positive when c is strictly
\* to the left of the directed line a -> b (a counter-clockwise turn).
Turn(a, b, c) == (b.x - a.x) * (c.y - a.y) - (b.y - a.y) * (c.x - a.x)

Between(u, v, w) == (u <= v /\ v <= w) \/ (w <= v /\ v <= u)

\* p is on the closed segment from a to b
OnSegment(a, b, p) ==
  /\ Turn(a, b, p) = 0
  /\ Between(a.x, p.x, b.x)
  /\ Between(a.y, p.y, b.y)

Range(s) == {s[k] : k \in 1..Len(s)}

Succ(k, n) == (k % n) + 1

\* a scan call has returned a list; the list, and the input it was computed from
Returned == result.kind = "list" /\ result.op \in ScanOps
Hull == result.val
Input == arg

\* the input point of minimum y, of minimum x among those
Pivot(points) ==
  CHOOSE p \in Range(points) :
    \A q \in Range(points) : p.y < q.y \/ (p.y = q.y /\ p.x <= q.x)

Count(s, p) == Cardinality({k \in 1..Len(s) : s[k] = p})

Collinear(points) ==
  \A a \in Range(points), b \in Range(points), c \in Range(points) : Turn(a, b, c) = 0

StrictlyInside(h, q) ==
  /\ Len(h) >= 3
  /\ \A k \in 1..Len(h) : Turn(h[k], h[Succ(k, Len(h))], q) > 0

\* points with q put behind its first pos elements
InsertAt(points, pos, q) ==
  SubSeq(points, 1, pos) \o <<q>> \o SubSeq(points, pos + 1, Len(points))

Permuted(points, f) == [k \in 1..Len(points) |-> points[f[k]]]

\* C1: a returned hull has fewer than 3 vertices, or every consecutive vertex
\* triple, the two wraparound triples included, is a strict counter-clockwise
\* turn.
C1_StrictlyConvex ==
  Returned =>
    \/ Len(Hull) < 3
    \/ \A k \in 1..Len(Hull) :
         Turn(Hull[k], Hull[Succ(k, Len(Hull))], Hull[Succ(Succ(k, Len(Hull)), Len(Hull))]) > 0

\* C1 witness: a hull of 3 vertices was returned for 4 points, one of which lies
\* on a hull edge between two vertices and was removed.
C1_Witness ==
  /\ Returned
  /\ Len(Hull) = 3
  /\ Len(Input) = 4
  /\ \E p \in Range(Input) \ Range(Hull), k \in 1..3 : OnSegment(Hull[k], Hull[Succ(k, 3)], p)

\* C2: a returned hull contains every input point: no input point is strictly
\* on the clockwise side of a directed hull edge; with 2 vertices every input
\* point is on the closed segment between them; with 1 vertex every input point
\* equals it.
C2_ContainsInput ==
  Returned =>
    \A p \in Range(Input) :
      IF Len(Hull) = 1 THEN p = Hull[1]
      ELSE IF Len(Hull) = 2 THEN OnSegment(Hull[1], Hull[2], p)
      ELSE \A k \in 1..Len(Hull) : Turn(Hull[k], Hull[Succ(k, Len(Hull))], p) >= 0

\* C3: every vertex of a returned hull equals some input point.
C3_Subset == Returned => \A k \in 1..Len(Hull) : \E j \in 1..Len(Input) : Hull[k] = Input[j]

\* C3 witness: a hull of at least 3 vertices was returned that leaves out some
\* input point.
C3_Witness ==
  /\ Returned
  /\ Len(Hull) >= 3
  /\ Range(Input) \ Range(Hull) # {}

\* C4: the first vertex of a returned hull is the pivot (minimum y, minimum x
\* among those), on the degenerate return path as well, and the pivot is in the
\* hull exactly once.
C4_PivotFirst ==
  Returned =>
    /\ Hull[1] = Pivot(Input)
    /\ Count(Hull, Pivot(Input)) = 1

\* C4 witness: the input holds several copies of the pivot, is not led by it,
\* and a hull of at least 3 vertices was returned.
C4_Witness ==
  /\ Returned
  /\ Len(Hull) >= 3
  /\ Count(Input, Pivot(Input)) >= 2
  /\ Input[1] # Pivot(Input)

\* C5: graham_scan of any permutation of the input returns the sequence that
\* was returned for the input.
C5_OrderIndependent ==
  Returned =>
    \A f \in Permutations(1..Len(Input)) : graham_scan(Permuted(Input, f)) = Hull

\* C5 witness: a hull of 4 vertices was returned for an input that lists its
\* points in another order than the hull does.
C5_Witness ==
  /\ Returned
  /\ Len(Hull) = 4
  /\ Input # Hull

\* C6: when q is strictly inside a returned hull (strictly counter-clockwise of
\* every directed edge), graham_scan of the input with q added at any position
\* returns that hull.
C6_InteriorPoint ==
  Returned =>
    \A q \in Grid \cup WidePoints :
      StrictlyInside(Hull, q) =>
        \A pos \in 0..Len(Input) : graham_scan(InsertAt(Input, pos, q)) = Hull

\* C7: a scan of at least 3 collinear points returns a list: the pivot alone
\* when all points are identical, otherwise the pivot and then the other end of
\* the segment that holds all input points.
C7_Collinear ==
  /\ result.op = "graham_scan" \/ (result.op = "compute_convex_hull" /\ algorithm = "graham")
  /\ Len(Input) >= 3
  /\ Collinear(Input)
  => /\ result.kind = "list"
     /\ Hull[1] = Pivot(Input)
     /\ IF Cardinality(Range(Input)) = 1
        THEN Hull = <<Pivot(Input)>>
        ELSE /\ Len(Hull) = 2
             /\ Hull[2] \in Range(Input) \ {Hull[1]}
             /\ \A p \in Range(Input) : OnSegment(Hull[1], Hull[2], p)

\* C7 witness: a scan has returned for collinear input with a point strictly
\* between the two ends.
C7_Witness ==
  /\ Returned
  /\ Collinear(Input)
  /\ Len(Hull) = 2
  /\ Range(Input) \ Range(Hull) # {}

\* C8: compute_convex_hull with an algorithm other than "graham" ends in an
\* error; it never returns.
C8_UnsupportedFails ==
  result.op = "compute_convex_hull" /\ algorithm # "graham" => result.kind = "ValueError"

\* C9: the constructor raises ValueError exactly when it is given fewer than 3
\* points, counted with multiplicity; then no engine exists, so that no hull
\* operation can be called; compute_convex_hull(points, "graham") with fewer
\* than 3 points raises the same way.
C9_InvalidInput ==
  /\ result.op = "ConvexHull2D" => (result.kind = "ValueError" <=> Len(arg) < 3)
  /\ result.op = "ConvexHull2D" /\ result.kind = "ValueError" =>
       /\ engine = "none"
       /\ ~ENABLED GrahamScan
       /\ ~ENABLED GetHullVertices
  /\ algorithm = "graham" /\ Len(arg) < 3 /\ result.kind # "none" =>
       /\ result = Outcome("compute_convex_hull", "ValueError", <<>>)
       /\ engine = "none"
  /\ algorithm = "graham" /\ result.kind = "ValueError" => Len(arg) < 3

\* C9 witness: the constructor was given 2 points and raised.
C9_Witness ==
  /\ result.op = "ConvexHull2D"
  /\ result.kind = "ValueError"
  /\ Len(arg) = 2
  /\ engine = "none"

\* C10: once graham_scan has returned on an engine, self.hull is the sequence
\* it returned, and so is what get_hull_vertices returns.
C10_Cached ==
  engine = "live" /\ pc = "idle" /\ last.has =>
    /\ self_hull = last.val
    /\ result.op = "get_hull_vertices" => result.val = last.val

\* self.hull once graham_scan has run on an engine built from points
HullAfterScan(points) ==
  IF Len(FilteredPoints(points)) < 2 THEN <<>> ELSE graham_scan(points)

\* no scan has returned on the engine yet
Untouched == engine = "live" /\ pc = "idle" /\ ~last.has

\* C11: get_hull_area and get_hull_perimeter called on an engine on which no
\* hull was computed yet return what they return after compute_hull on the
\* same input (the metrics of the computed hull), not the empty-hull value.
C11_ImplicitCompute ==
  Untouched =>
    /\ result.op = "get_hull_area" =>
         result.val = hull_area(HullAfterScan(self_points))
    /\ result.op = "get_hull_perimeter" =>
         result.val = hull_perimeter(HullAfterScan(self_points))

\* the sum of the lengths of the edges H[k] -> H[Succ(k, n)] from index k on
RECURSIVE EdgeSum(_, _)
EdgeSum(H, k) ==
  IF k > Len(H) THEN ZeroLength
  ELSE AddLength(EdgeSum(H, k + 1), distance_to(H[k], H[Succ(k, Len(H))]))

\* the shoelace sum over H from index k on
RECURSIVE Shoelace(_, _)
Shoelace(H, k) ==
  IF k > Len(H) THEN 0
  ELSE LET a == H[k]
           b == H[Succ(k, Len(H))]
       IN  a.x * b.y - b.x * a.y + Shoelace(H, k + 1)

\* C12: after graham_scan (compute_hull) has returned H on an engine,
\* get_hull_perimeter returns the sum of the lengths of the edges of H and 0
\* only if H has fewer than 2 vertices; get_hull_area returns half the
\* absolute shoelace sum over H and 0 only if H has fewer than 3 vertices.
C12_Metrics ==
  engine = "live" /\ pc = "idle" /\ last.has =>
    /\ result.op = "get_hull_perimeter" =>
         /\ result.val = EdgeSum(last.val, 1)
         /\ result.val = ZeroLength => Len(last.val) < 2
    /\ result.op = "get_hull_area" =>
         /\ result.val.halves = Abs(Shoelace(last.val, 1))
         /\ result.val.halves = 0 => Len(last.val) < 3

\* C12 where the scan loop ran, so that self.hull was stored
C12_MetricsOfStoredHull ==
  engine = "live" /\ pc = "idle" /\ last.has /\ self_hull = last.val =>
    /\ result.op = "get_hull_perimeter" =>
         /\ result.val = EdgeSum(last.val, 1)
         /\ result.val = ZeroLength => Len(last.val) < 2
    /\ result.op = "get_hull_area" =>
         /\ result.val.halves = Abs(Shoelace(last.val, 1))
         /\ result.val.halves = 0 => Len(last.val) < 3

\* the position of the candidate p in the collapsed list f
IndexIn(f, p) == CHOOSE k \in 1..Len(f) : f[k] = p

\* the stack of the scan loop: the pivot, then candidates met so far in the
\* order of the collapsed list, every consecutive triple a strict left turn
StackInv ==
  /\ 2 <= i /\ i <= Len(filtered_points)
  /\ \A j, k \in 1..Len(filtered_points) :
       filtered_points[j] = filtered_points[k] => j = k
  /\ start \notin Range(filtered_points)
  /\ Len(hull) >= 2
  /\ hull[1] = start
  /\ hull[2] = filtered_points[1]
  /\ \A k \in 2..Len(hull) : hull[k] \in Range(SubSeq(filtered_points, 1, i))
  /\ \A k \in 2..(Len(hull) - 1) :
       IndexIn(filtered_points, hull[k]) < IndexIn(filtered_points, hull[k + 1])
  /\ \A k \in 1..(Len(hull) - 2) : Turn(hull[k], hull[k + 1], hull[k + 2]) > 0
  /\ i < Len(filtered_points) /\ Len(hull) = 2 =>
       Turn(hull[1], hull[2], filtered_points[i + 1]) > 0

ScanInv == pc = "scan" => StackInv

\* what is left of the scan: two for a candidate to come, one for a stacked point
Variant == 2 * (Len(filtered_points) - i) + Len(hull)

\* one iteration of the while loop or of the for loop, inside one scan
LoopStep == pc = "scan" /\ pc' = "scan"

\* a pop takes the top off a stack of more than two, a push puts the next
\* candidate, which is not on the stack, on top; either brings the end nearer
StepInv ==
  LoopStep =>
    /\ \/ /\ i' = i
          /\ Len(hull) > 2
          /\ hull' = SubSeq(hull, 1, Len(hull) - 1)
       \/ /\ i' = i + 1
          /\ filtered_points[i'] \notin Range(hull)
          /\ hull' = hull \o <<filtered_points[i']>>
    /\ Variant' < Variant
    /\ filtered_points' = filtered_points /\ start' = start

\* the loop has ended when graham_scan returns: every candidate was met
ReturnInv ==
  pc = "scan" /\ pc' = "idle" =>
    /\ i = Len(filtered_points)
    /\ hull[Len(hull)] = filtered_points[i]
    /\ result'.val = hull

\* C13: in every state of the scan loop of graham_scan the stack has at least
\* 2 elements, its bottom two are the pivot and the first collapsed candidate
\* and are never popped, and all consecutive triples of the stack are strict
\* counter-clockwise turns; with 2 elements on the stack the next candidate is
\* strictly to the left, so the guard len(hull) > 1 never ends the while loop;
\* each candidate is pushed once, in the order of the list, and once popped it
\* does not come back; every step of the loop lowers a non-negative measure,
\* so the scan terminates, having met every candidate.
C13_ScanInvariant == [][ScanInv' /\ StepInv /\ ReturnInv]_vars

\* the loop has popped down to the bottom two and a candidate is waiting
C13_Witness ==
  /\ pc = "scan"
  /\ i < Len(filtered_points)
  /\ Len(hull) = 2
  /\ Len(hull) < i + 1

====
